---- MODULE Spec2Model ----
(***************************************************************************)
(* Model of the GitHub dependency clustering pipeline:                     *)
(*   functions/collect.py  scrape_github, extract_dependencies             *)
(*   functions/cluster.py  elbow_method                                    *)
(*   main.py               stage sequencing, feature matrix, grouping,     *)
(*                         cluster_top_packages                            *)
(*                                                                         *)
(* A Python dict is an insertion-ordered mapping; it is modelled as a      *)
(* sequence of <<key, value>> pairs with distinct keys.  A repository's    *)
(* full_name is an opaque identifier, modelled as a natural number.  A     *)
(* package name is a string, modelled as a non-empty sequence of character *)
(* codes, so that sorted() is the lexicographic order on strings.          *)
(***************************************************************************)
EXTENDS Naturals, Sequences, FiniteSets

VARIABLES
    pc,                   \* position of the main thread
    \* ---- scrape_github
    max_repos,            \* argument max_repos
    raw_repos,            \* dict full_name -> repo (keys, in insertion order)
    yielded,              \* repositories the search iterator has produced so far
    scrape_exit,          \* which path left scrape_github
    \* ---- extract_dependencies
    remote,               \* per repository: what the content source answers
    hash_order,           \* iteration order of sets of strings in this process
    tasks,                \* per repository: state of its process_repo future
    repos_dependencies,   \* dict full_name -> package list
    \* ---- main.py
    raw, repos,           \* the script's variables raw and repos
    returned,             \* value extract_dependencies returned in this run
    blob,                 \* files data/raw.pkl and data/repos.pkl
    repo_names, all_packages, X,
    rerun,                \* a second construction of the matrix (other iteration order)
    repos2,               \* the same mapping, presented in another iteration order
    fits,                 \* number of KMeans fits started so far
    n_clusters,           \* n_clusters of the fitted partitioner
    clusters,             \* labels returned by fit_predict
    cluster_repo_map, cluster_top_packages,
    error                 \* the exception that ended the run, "" if none

scrapeVars  == <<max_repos, raw_repos, yielded, scrape_exit>>
extractVars == <<remote, hash_order, tasks, repos_dependencies>>
stageVars   == <<raw, repos, returned, blob>>
matrixVars  == <<repo_names, all_packages, X>>
rerunVars   == <<rerun, repos2>>
clusterVars == <<fits, n_clusters, clusters>>
summaryVars == <<cluster_repo_map, cluster_top_packages>>
vars == <<pc, scrapeVars, extractVars, stageVars, matrixVars, rerunVars,
          clusterVars, summaryVars, error>>

(***************************************************************************)
(* Generic helpers: sequences and dicts                                    *)
(***************************************************************************)
Range(s) == {s[i] : i \in 1..Len(s)}

Min(a, b) == IF a <= b THEN a ELSE b

NoDup(s) == \A i, j \in 1..Len(s) : i # j => s[i] # s[j]

\* All duplicate-free sequences over the set S (every order of every subset).
RECURSIVE PermsOf(_)
PermsOf(S) ==
    IF S = {} THEN {<<>>}
    ELSE UNION {{<<x>> \o p : p \in PermsOf(S \ {x})} : x \in S}

Arrangements(S) == UNION {PermsOf(T) : T \in SUBSET S}

Reverse(s) == [i \in 1..Len(s) |-> s[Len(s) + 1 - i]]

Keys(d) == [i \in 1..Len(d) |-> d[i][1]]

HasKey(d, k) == \E i \in 1..Len(d) : d[i][1] = k

Get(d, k) == d[CHOOSE i \in 1..Len(d) : d[i][1] = k][2]

\* d[k] = v: an existing key keeps its position, a new key goes last.
Put(d, k, v) ==
    IF HasKey(d, k)
    THEN [i \in 1..Len(d) |-> IF d[i][1] = k THEN <<k, v>> ELSE d[i]]
    ELSE Append(d, <<k, v>>)

\* The mapping as a set of (key, set of values) entries, order forgotten.
Entries(d) == {<<d[i][1], Range(d[i][2])>> : i \in 1..Len(d)}

(***************************************************************************)
(* Bounds                                                                  *)
(***************************************************************************)
MaxStream == 4       \* search results the iterator may produce
MaxArg == 3          \* largest max_repos argument tried
NumIds == 3          \* distinct repositories in the search results

(***************************************************************************)
(* scrape_github                                                           *)
(***************************************************************************)
ScrapeIds == 1..NumIds

\* Exceptions the iteration over the search results may raise.
IterationErrors == {"RateLimitExceededException", "rate limit message", "other"}

\* Variant: the last handler re-raises what is not a rate limit.
HandleIterationErrorReraising(e) ==
    IF e = "RateLimitExceededException" THEN "scrape_returned"
    ELSE IF e = "rate limit message" THEN "scrape_returned"
    ELSE "scrape_raised"

\* The handlers of the second try block: where control goes for exception e.
\* Every path ends in "return raw_repos".
HandleIterationError(e) ==
    IF e = "RateLimitExceededException" THEN "scrape_returned"
    ELSE IF e = "rate limit message" THEN "scrape_returned"
    ELSE "scrape_returned"

\* The loop's stop condition.
ReachedMax(d, m) == Len(d) >= m

\* g.search_repositories(...) succeeded.
ScrapeSearch ==
    /\ pc = "scrape_search"
    /\ pc' = "scrape_loop"
    /\ UNCHANGED <<scrapeVars, extractVars, stageVars, matrixVars, rerunVars,
                   clusterVars, summaryVars, error>>

\* g.search_repositories(...) raised: caught, the empty dict is returned.
ScrapeSearchFails ==
    /\ pc = "scrape_search"
    /\ pc' = "scrape_returned"
    /\ scrape_exit' = "search error"
    /\ UNCHANGED <<max_repos, raw_repos, yielded, extractVars, stageVars,
                   matrixVars, rerunVars, clusterVars, summaryVars, error>>

\* One iteration of "for repo in repositories" with a repository produced.
ScrapeNextItem ==
    /\ pc = "scrape_loop"
    /\ Len(yielded) < MaxStream
    /\ \E r \in ScrapeIds :
         /\ yielded' = Append(yielded, r)
         /\ IF ReachedMax(raw_repos, max_repos)
            THEN /\ pc' = "scrape_returned"
                 /\ scrape_exit' = "max_repos"
                 /\ UNCHANGED raw_repos
            ELSE IF r \in Range(raw_repos)
            THEN UNCHANGED <<pc, raw_repos, scrape_exit>>
            ELSE /\ raw_repos' = Append(raw_repos, r)
                 /\ UNCHANGED <<pc, scrape_exit>>
    /\ UNCHANGED <<max_repos, extractVars, stageVars, matrixVars, rerunVars,
                   clusterVars, summaryVars, error>>

\* The iterator raised while fetching the next repository.
ScrapeIterationError ==
    /\ pc = "scrape_loop"
    /\ \E e \in IterationErrors :
         /\ pc' = HandleIterationError(e)
         /\ scrape_exit' = e
    /\ UNCHANGED <<max_repos, raw_repos, yielded, extractVars, stageVars,
                   matrixVars, rerunVars, clusterVars, summaryVars, error>>

\* The iterator is exhausted: the loop ends normally.
ScrapeExhausted ==
    /\ pc = "scrape_loop"
    /\ pc' = "scrape_returned"
    /\ scrape_exit' = "exhausted"
    /\ UNCHANGED <<max_repos, raw_repos, yielded, extractVars, stageVars,
                   matrixVars, rerunVars, clusterVars, summaryVars, error>>

(***************************************************************************)
(* extract_dependencies                                                    *)
(***************************************************************************)
MaxTasks == 2        \* repositories handed to extract_dependencies

dependency_files == <<"requirements.txt", "setup.py", "setup.cfg", "pyproject.toml">>

\* Package names "a", "ab", "b" as character codes.
PkgA == <<1>>
PkgAB == <<1, 2>>
PkgB == <<2>>

\* What extract_from_file returns for a candidate that was fetched and parsed:
\* a list that may repeat a name and may overlap with another file's list.
ParsedPackages(file_name) ==
    IF file_name = "requirements.txt" THEN <<PkgA, PkgAB>>
    ELSE IF file_name = "setup.py" THEN <<PkgAB, PkgAB>>
    ELSE IF file_name = "setup.cfg" THEN <<>>
    ELSE <<PkgA>>

\* A repository object as the content source presents it: the candidates whose
\* get_contents / decode / parse raises, and whether reading full_name raises.
RemoteRepos ==
    [fails : SUBSET Range(dependency_files), name_raises : BOOLEAN]

None == <<>>

\* The distinct packages of the candidates of repo that were fetched and parsed.
UnionOfSucceeded(repo) ==
    UNION {Range(ParsedPackages(f)) : f \in Range(dependency_files) \ repo.fails}

\* A submitted task.  The pool has 10 workers and the model at most MaxTasks
\* repositories, so every task gets a worker thread when it is submitted.
NewTask ==
    [state |-> "running", probed |-> <<>>, result |-> None,
     collected |-> FALSE,   \* as_completed has handed the future to the loop
     writes |-> 0]          \* assignments to repos_dependencies[full_name]

\* Variant: the first failing candidate ends the loop.
RECURSIVE ProbeUntilFailure(_, _, _)
ProbeUntilFailure(repo, i, acc) ==
    IF i > Len(dependency_files) THEN acc
    ELSE LET file_name == dependency_files[i]
             seen == [acc EXCEPT !.probed = Append(@, file_name)]
         IN  IF file_name \in repo.fails
             THEN seen
             ELSE ProbeUntilFailure(repo, i + 1,
                    [seen EXCEPT !.packages = @ \o ParsedPackages(file_name)])

\* The body of "for file_name in dependency_files", from candidate i on:
\* an exception in the try block skips to the next candidate (continue).
RECURSIVE ProbeFrom(_, _, _)
ProbeFrom(repo, i, acc) ==
    IF i > Len(dependency_files) THEN acc
    ELSE LET file_name == dependency_files[i]
             seen == [acc EXCEPT !.probed = Append(@, file_name)]
         IN  IF file_name \in repo.fails
             THEN ProbeFrom(repo, i + 1, seen)
             ELSE ProbeFrom(repo, i + 1,
                    [seen EXCEPT !.packages = @ \o ParsedPackages(file_name)])

\* Orders in which a set of package names may be iterated: they depend on the
\* interpreter's string hashing, which is fixed when the process starts.
HashOrders == PermsOf({PkgA, PkgAB})

\* list(set(aggregated_packages)): the distinct names, in hash order.
ListOfSet(packages) == SelectSeq(hash_order, LAMBDA p : p \in Range(packages))

\* Variant: a future is handed over as soon as its task has started.
IsStarted(t) == t.state \in {"running", "done", "raised"}

\* as_completed yields a future once it has finished, normally or not.
IsCompleted(t) == t.state \in {"done", "raised"}

\* repos_dependencies[repo_name] = aggregated_packages
StoreResult(d, result) == Put(d, result[1], result[2])

\* future.result() of a future whose task raised re-raises in the main thread,
\* inside the with block: control leaves the as_completed loop.
AfterFutureRaised == "extract_unwind"

Submitted == DOMAIN tasks

\* Line 187: one future per repository of raw_repos.
ExtractSubmit ==
    /\ pc = "extract_submit"
    /\ tasks' = [r \in DOMAIN remote |-> NewTask]
    /\ pc' = "extract_collect"
    /\ UNCHANGED <<scrapeVars, remote, hash_order, repos_dependencies, stageVars,
                   matrixVars, rerunVars, clusterVars, summaryVars, error>>

\* process_repo(repo), to its return or to the exception that escapes it.
TaskRun ==
    /\ \E r \in Submitted :
         /\ tasks[r].state = "running"
         /\ LET acc == ProbeFrom(remote[r], 1, [packages |-> <<>>, probed |-> <<>>])
                aggregated_packages == ListOfSet(acc.packages)
            IN    tasks' = [tasks EXCEPT ![r] =
                     IF aggregated_packages = <<>>
                     THEN [@ EXCEPT !.state = "done", !.probed = acc.probed,
                                    !.result = None]
                     ELSE IF remote[r].name_raises
                     THEN [@ EXCEPT !.state = "raised", !.probed = acc.probed]
                     ELSE [@ EXCEPT !.state = "done", !.probed = acc.probed,
                                    !.result = <<r, aggregated_packages>>]]
    /\ UNCHANGED <<pc, scrapeVars, remote, hash_order, repos_dependencies, stageVars,
                   matrixVars, rerunVars, clusterVars, summaryVars, error>>

\* One iteration of "for future in as_completed(...)": lines 188-193.
ExtractCollect ==
    /\ pc = "extract_collect"
    /\ \E r \in Submitted :
         /\ IsCompleted(tasks[r])
         /\ ~tasks[r].collected
         /\ IF tasks[r].state = "raised"
            THEN /\ pc' = AfterFutureRaised
                 /\ tasks' = [tasks EXCEPT ![r].collected = TRUE]
                 /\ UNCHANGED repos_dependencies
            ELSE IF tasks[r].result # None
            THEN /\ pc' = pc
                 /\ repos_dependencies' =
                      StoreResult(repos_dependencies, tasks[r].result)
                 /\ tasks' = [tasks EXCEPT ![r].collected = TRUE,
                                           ![tasks[r].result[1]].writes = @ + 1]
            ELSE /\ pc' = pc
                 /\ tasks' = [tasks EXCEPT ![r].collected = TRUE]
                 /\ UNCHANGED repos_dependencies
    /\ UNCHANGED <<scrapeVars, remote, hash_order, stageVars, matrixVars, rerunVars,
                   clusterVars, summaryVars, error>>

\* Every future has been handed over: the with block ends, lines 195-196.
ExtractReturn ==
    /\ pc = "extract_collect"
    /\ \A r \in Submitted : tasks[r].collected
    /\ pc' = "extract_returned"
    /\ UNCHANGED <<scrapeVars, extractVars, stageVars, matrixVars, rerunVars,
                   clusterVars, summaryVars, error>>

\* The exception leaves the with block: the executor's shutdown(wait=True)
\* waits for every task, then the exception leaves extract_dependencies.
ExtractUnwind ==
    /\ pc = "extract_unwind"
    /\ \A r \in Submitted : IsCompleted(tasks[r])
    /\ pc' = "extract_raised"
    /\ error' = "exception from process_repo"
    /\ UNCHANGED <<scrapeVars, extractVars, stageVars, matrixVars, rerunVars,
                   clusterVars, summaryVars>>

(***************************************************************************)
(* main.py: feature matrix (lines 42-62)                                   *)
(***************************************************************************)
\* Python's order on strings: lexicographic by character code.
RECURSIVE LexLess(_, _)
LexLess(s, t) ==
    IF t = <<>> THEN FALSE
    ELSE IF s = <<>> THEN TRUE
    ELSE IF s[1] # t[1] THEN s[1] < t[1]
    ELSE LexLess(Tail(s), Tail(t))

\* Variant: shorter names first, names of one length in string order.
RECURSIVE SortedByLength(_)
SortedByLength(S) ==
    IF S = {} THEN <<>>
    ELSE LET least == CHOOSE x \in S : \A y \in S \ {x} :
                         \/ Len(x) < Len(y)
                         \/ Len(x) = Len(y) /\ LexLess(x, y)
         IN  <<least>> \o SortedByLength(S \ {least})

\* sorted(S) for a set of strings.
RECURSIVE Sorted(_)
Sorted(S) ==
    IF S = {} THEN <<>>
    ELSE LET least == CHOOSE x \in S : \A y \in S \ {x} : LexLess(x, y)
         IN  <<least>> \o Sorted(S \ {least})

\* set(pkg for pkgs in repos.values() for pkg in pkgs)
PackageSet(d) == UNION {Range(d[i][2]) : i \in 1..Len(d)}

\* package_to_index.get(pkg): the 1-based column, 0 for None.
PackageIndex(vocabulary, pkg) ==
    IF pkg \in Range(vocabulary)
    THEN CHOOSE j \in 1..Len(vocabulary) : vocabulary[j] = pkg
    ELSE 0

\* The inner loop of lines 59-62 on one row of zeros.
RECURSIVE FillRow(_, _, _, _)
FillRow(row, pkgs, p, vocabulary) ==
    IF p > Len(pkgs) THEN row
    ELSE LET j == PackageIndex(vocabulary, pkgs[p])
         IN  FillRow(IF j # 0 THEN [row EXCEPT ![j] = 1] ELSE row,
                     pkgs, p + 1, vocabulary)

\* Lines 43-62 on the mapping d: repo_names, all_packages and X.
BuildMatrix(d) ==
    LET names == Keys(d)
        vocabulary == Sorted(PackageSet(d))
        zeros == [j \in 1..Len(vocabulary) |-> 0]
    IN  [repo_names |-> names,
         all_packages |-> vocabulary,
         X |-> [i \in 1..Len(names) |->
                  FillRow(zeros, Get(d, names[i]), 1, vocabulary)]]

NotBuilt == [repo_names |-> <<>>, all_packages |-> <<>>, X |-> <<>>]

MainBuild ==
    /\ pc = "main_build"
    /\ LET m == BuildMatrix(repos)
       IN  /\ repo_names' = m.repo_names
           /\ all_packages' = m.all_packages
           /\ X' = m.X
    /\ pc' = "main_elbow"
    /\ UNCHANGED <<scrapeVars, extractVars, stageVars, rerunVars, clusterVars,
                   summaryVars, error>>

\* The same lines run on the other presentation of the mapping.
Rebuild ==
    /\ rerun = NotBuilt
    /\ repos2 # <<>>
    /\ rerun' = BuildMatrix(repos2)
    /\ UNCHANGED <<pc, scrapeVars, extractVars, stageVars, matrixVars, repos2,
                   clusterVars, summaryVars, error>>

(***************************************************************************)
(* main.py: grouping and cluster_top_packages (lines 81-96)                *)
(***************************************************************************)
\* Variant: the label is read one row too early.
RECURSIVE GroupFromShifted(_, _, _, _)
GroupFromShifted(map, names, labels, i) ==
    IF i > Min(Len(names), Len(labels)) THEN map
    ELSE LET label == labels[IF i > 1 THEN i - 1 ELSE i]
             members == IF HasKey(map, label) THEN Get(map, label) ELSE <<>>
         IN  GroupFromShifted(Put(map, label, Append(members, names[i])),
                              names, labels, i + 1)

\* cluster_repo_map.setdefault(label, []).append(repo) over
\* zip(repo_names, clusters), from position i on.
RECURSIVE GroupFrom(_, _, _, _)
GroupFrom(map, names, labels, i) ==
    IF i > Min(Len(names), Len(labels)) THEN map
    ELSE LET label == labels[i]
             members == IF HasKey(map, label) THEN Get(map, label) ELSE <<>>
         IN  GroupFrom(Put(map, label, Append(members, names[i])),
                       names, labels, i + 1)

\* cluster_packages.extend(repos[repo]) for each repo of repo_list.
RECURSIVE ClusterPackages(_, _, _)
ClusterPackages(d, repo_list, i) ==
    IF i > Len(repo_list) THEN <<>>
    ELSE Get(d, repo_list[i]) \o ClusterPackages(d, repo_list, i + 1)

\* Counter(items): counts keyed by item, in order of first occurrence.
RECURSIVE CounterFrom(_, _, _)
CounterFrom(counter, items, i) ==
    IF i > Len(items) THEN counter
    ELSE LET c == IF HasKey(counter, items[i]) THEN Get(counter, items[i]) ELSE 0
         IN  CounterFrom(Put(counter, items[i], c + 1), items, i + 1)

\* Variant: a pair goes in front of the pairs of equal count.
InsertBeforeEqual(sorted, pair) ==
    LET ahead == {i \in 1..Len(sorted) : sorted[i][2] > pair[2]}
        n == Cardinality(ahead)
    IN  SubSeq(sorted, 1, n) \o <<pair>> \o SubSeq(sorted, n + 1, Len(sorted))

\* Where pair goes in a list already ordered by descending count: behind
\* every pair whose count is at least its own (equal counts keep their order).
InsertByCount(sorted, pair) ==
    LET ahead == {i \in 1..Len(sorted) : sorted[i][2] >= pair[2]}
        n == Cardinality(ahead)
    IN  SubSeq(sorted, 1, n) \o <<pair>> \o SubSeq(sorted, n + 1, Len(sorted))

RECURSIVE SortByCount(_, _, _)
SortByCount(sorted, counter, i) ==
    IF i > Len(counter) THEN sorted
    ELSE SortByCount(InsertByCount(sorted, counter[i]), counter, i + 1)

\* Counter.most_common(n): sorted(items, key=count, reverse=True)[:n].
MostCommon(counter, n) ==
    LET ordered == SortByCount(<<>>, counter, 1)
    IN  SubSeq(ordered, 1, Min(n, Len(ordered)))

TopN == 10           \* counter.most_common(10)

\* Lines 87-96, from entry i of cluster_repo_map on.
RECURSIVE TopPackagesFrom(_, _, _, _)
TopPackagesFrom(top, map, d, i) ==
    IF i > Len(map) THEN top
    ELSE LET cluster_packages == ClusterPackages(d, map[i][2], 1)
             counter == CounterFrom(<<>>, cluster_packages, 1)
         IN  TopPackagesFrom(Put(top, map[i][1], MostCommon(counter, TopN)),
                             map, d, i + 1)

MainGroup ==
    /\ pc = "main_group"
    /\ cluster_repo_map' = GroupFrom(<<>>, repo_names, clusters, 1)
    /\ pc' = "main_summarize"
    /\ UNCHANGED <<scrapeVars, extractVars, stageVars, matrixVars, rerunVars,
                   clusterVars, cluster_top_packages, error>>

MainSummarize ==
    /\ pc = "main_summarize"
    /\ cluster_top_packages' = TopPackagesFrom(<<>>, cluster_repo_map, repos, 1)
    /\ pc' = "main_plot"
    /\ UNCHANGED <<scrapeVars, extractVars, stageVars, matrixVars, rerunVars,
                   clusterVars, cluster_repo_map, error>>

(***************************************************************************)
(* main.py: stage sequencing (lines 21-40) and the fits (lines 64-72)      *)
(***************************************************************************)
MaxScraped == 11     \* repositories a run may scrape
MaxMatrixRepos == 2  \* repositories of a mapping the matrix is built from
MaxGroupRepos == 3   \* repositories of a mapping that is grouped and summarized

max_k == 10          \* elbow_method(X, fname, max_k=10)

optimal_k == 5       \* optimal_k = 5

Absent == [present |-> FALSE, value |-> <<>>]

Stored(v) == [present |-> TRUE, value |-> v]

FirstIds(n) == [i \in 1..n |-> i]

\* The package list the aggregator finds for repository r.
PackagesOfRepo(r) ==
    IF r % 3 = 1 THEN <<PkgA>>
    ELSE IF r % 3 = 2 THEN <<PkgAB, PkgA>>
    ELSE <<PkgB, PkgAB, PkgA>>

MappingOf(keys) == [i \in 1..Len(keys) |-> <<keys[i], PackagesOfRepo(keys[i])>>]

\* Values scrape_github may return.
ScrapeResults == {FirstIds(n) : n \in 0..MaxScraped}

\* Values extract_dependencies may return for raw_repos: repositories without
\* dependencies are missing, the key order is the order of completion.
ExtractResults(raw_repos_arg) ==
    UNION {{MappingOf(FirstIds(m)), MappingOf(Reverse(FirstIds(m)))} :
             m \in 0..Len(raw_repos_arg)}

\* What the data directory may hold when the run starts: nothing, or what an
\* earlier run saved.
EarlierRuns ==
    {[raw |-> Absent, repos |-> Absent]} \cup
    {[raw |-> Stored(FirstIds(m)), repos |-> Stored(MappingOf(FirstIds(m)))] :
       m \in 0..MaxScraped}

\* KMeans(n_clusters=k).fit on a matrix of n rows raises ValueError when
\* there are fewer rows than clusters.
FitRaises(n, k) == n < k

\* Label vectors fit_predict may return for n rows: one label of 0..k-1 per
\* row (a sample of the k^n vectors).
KMeansLabelings(n, k) ==
    {[i \in 1..n |-> (i * a + b) % k] : a \in 0..1, b \in 0..(k - 1)}

\* Line 22.
MainScrape ==
    /\ pc = "main_scrape"
    /\ \E r \in ScrapeResults : raw' = r
    /\ pc' = "main_extract"
    /\ UNCHANGED <<scrapeVars, extractVars, repos, returned, blob, matrixVars,
                   rerunVars, clusterVars, summaryVars, error>>

\* Line 25, extract_dependencies returning.
MainExtract ==
    /\ pc = "main_extract"
    /\ \E d \in ExtractResults(raw) :
         /\ repos' = d
         /\ returned' = d
    /\ pc' = "main_load"
    /\ UNCHANGED <<scrapeVars, extractVars, raw, blob, matrixVars, rerunVars,
                   clusterVars, summaryVars, error>>

\* Line 25, extract_dependencies raising (a task's exception re-raised).
MainExtractRaises ==
    /\ pc = "main_extract"
    /\ raw # <<>>
    /\ pc' = "main_error"
    /\ error' = "exception from process_repo"
    /\ UNCHANGED <<scrapeVars, extractVars, stageVars, matrixVars, rerunVars,
                   clusterVars, summaryVars>>

\* Lines 28-29: repos = pickle.load(open("data/repos.pkl")).
MainLoad ==
    /\ pc = "main_load"
    /\ IF blob.repos.present
       THEN /\ repos' = blob.repos.value
            /\ pc' = "main_save"
            /\ UNCHANGED error
       ELSE /\ pc' = "main_error"
            /\ error' = "FileNotFoundError"
            /\ UNCHANGED repos
    /\ UNCHANGED <<scrapeVars, extractVars, raw, returned, blob, matrixVars,
                   rerunVars, clusterVars, summaryVars>>

\* Lines 31-40: print the mapping, then pickle.dump raw and repos.
MainSave ==
    /\ pc = "main_save"
    /\ blob' = [raw |-> Stored(raw), repos |-> Stored(repos)]
    /\ pc' = "main_build"
    /\ UNCHANGED <<scrapeVars, extractVars, raw, repos, returned, matrixVars,
                   rerunVars, clusterVars, summaryVars, error>>

\* elbow_method, one pass of "for k in k_values": KMeans(n_clusters=k).fit(X).
ElbowFit ==
    /\ pc = "main_elbow"
    /\ fits < max_k
    /\ fits' = fits + 1
    /\ IF FitRaises(Len(X), fits + 1)
       THEN /\ pc' = "main_error"
            /\ error' = "ValueError"
       ELSE UNCHANGED <<pc, error>>
    /\ UNCHANGED <<scrapeVars, extractVars, stageVars, matrixVars, rerunVars,
                   n_clusters, clusters, summaryVars>>

\* elbow_method after the loop: the plot is saved and shown.
ElbowPlot ==
    /\ pc = "main_elbow"
    /\ fits = max_k
    /\ pc' = "main_kmeans"
    /\ UNCHANGED <<scrapeVars, extractVars, stageVars, matrixVars, rerunVars,
                   clusterVars, summaryVars, error>>

\* Lines 67-72: KMeans(n_clusters=optimal_k).fit_predict(X).
MainKMeans ==
    /\ pc = "main_kmeans"
    /\ fits' = fits + 1
    /\ n_clusters' = optimal_k
    /\ IF FitRaises(Len(X), optimal_k)
       THEN /\ pc' = "main_error"
            /\ error' = "ValueError"
            /\ UNCHANGED clusters
       ELSE /\ \E labels \in KMeansLabelings(Len(X), optimal_k) : clusters' = labels
            /\ pc' = "main_group"
            /\ UNCHANGED error
    /\ UNCHANGED <<scrapeVars, extractVars, stageVars, matrixVars, rerunVars,
                   summaryVars>>

(***************************************************************************)
(* Specifications                                                          *)
(***************************************************************************)
ScrapeIdle ==
    /\ max_repos = 0 /\ raw_repos = <<>> /\ yielded = <<>> /\ scrape_exit = ""

ExtractIdle ==
    /\ remote = <<>> /\ hash_order = <<>>
    /\ tasks = <<>> /\ repos_dependencies = <<>>

StageIdle ==
    /\ raw = <<>> /\ returned = <<>> /\ blob = [raw |-> Absent, repos |-> Absent]

MatrixIdle ==
    /\ repo_names = <<>> /\ all_packages = <<>> /\ X = <<>>

RerunIdle ==
    /\ rerun = NotBuilt /\ repos2 = <<>>

ClusterIdle ==
    /\ fits = 0 /\ n_clusters = 0 /\ clusters = <<>>

SummaryIdle ==
    /\ cluster_repo_map = <<>> /\ cluster_top_packages = <<>>

\* ---- the script main.py, from its first stage to cluster_top_packages
Init ==
    /\ pc = "main_scrape"
    /\ ScrapeIdle /\ ExtractIdle
    /\ raw = <<>> /\ repos = <<>> /\ returned = <<>>
    /\ blob \in EarlierRuns
    /\ MatrixIdle /\ RerunIdle /\ ClusterIdle /\ SummaryIdle
    /\ error = ""

Next ==
    \/ MainScrape
    \/ MainExtract
    \/ MainExtractRaises
    \/ MainLoad
    \/ MainSave
    \/ MainBuild
    \/ ElbowFit
    \/ ElbowPlot
    \/ MainKMeans
    \/ MainGroup
    \/ MainSummarize

Spec == Init /\ [][Next]_vars

\* ---- scrape_github(token, max_repos, min_stars)
InitScrape ==
    /\ pc = "scrape_search"
    /\ max_repos \in 0..MaxArg
    /\ raw_repos = <<>> /\ yielded = <<>> /\ scrape_exit = ""
    /\ ExtractIdle /\ StageIdle /\ repos = <<>>
    /\ MatrixIdle /\ RerunIdle /\ ClusterIdle /\ SummaryIdle
    /\ error = ""

NextScrape ==
    \/ ScrapeSearch
    \/ ScrapeSearchFails
    \/ ScrapeNextItem
    \/ ScrapeIterationError
    \/ ScrapeExhausted

SpecScrape == InitScrape /\ [][NextScrape]_vars

\* ---- extract_dependencies(raw_repos)
InitExtract ==
    /\ pc = "extract_submit"
    /\ ScrapeIdle
    /\ \E n \in 0..MaxTasks : remote \in [1..n -> RemoteRepos]
    \* full_name is read only once packages were found
    /\ \A r \in DOMAIN remote :
         remote[r].name_raises => UnionOfSucceeded(remote[r]) # {}
    /\ hash_order \in HashOrders
    /\ tasks = <<>> /\ repos_dependencies = <<>>
    /\ StageIdle /\ repos = <<>>
    /\ MatrixIdle /\ RerunIdle /\ ClusterIdle /\ SummaryIdle
    /\ error = ""

NextExtract ==
    \/ ExtractSubmit
    \/ TaskRun
    \/ ExtractCollect
    \/ ExtractReturn
    \/ ExtractUnwind

SpecExtract == InitExtract /\ [][NextExtract]_vars

\* ---- the feature matrix as a function of the mapping
PackageNames == {PkgA, PkgAB, PkgB}

\* Package lists the aggregator may produce: non-empty, no name twice.
PackageLists == Arrangements(PackageNames) \ {<<>>}

MappingsOver(keys, lists) ==
    {[i \in 1..Len(keys) |-> <<keys[i], vals[i]>>] : vals \in [1..Len(keys) -> lists]}

MatrixInputs ==
    UNION {MappingsOver(keys, PackageLists) : keys \in Arrangements(1..MaxMatrixRepos)}

ReverseKeys(d) == Reverse(d)

ReverseLists(d) == [i \in 1..Len(d) |-> <<d[i][1], Reverse(d[i][2])>>]

\* The same mapping with its keys, its lists, or both iterated the other way.
Presentations(d) == {ReverseKeys(d), ReverseLists(d), ReverseKeys(ReverseLists(d))}

InitMatrix ==
    /\ pc = "main_build"
    /\ ScrapeIdle /\ ExtractIdle /\ StageIdle
    /\ repos \in MatrixInputs
    /\ repos2 \in Presentations(repos)
    /\ rerun = NotBuilt
    /\ MatrixIdle /\ ClusterIdle /\ SummaryIdle
    /\ error = ""

NextMatrix ==
    \/ MainBuild
    \/ Rebuild

SpecMatrix == InitMatrix /\ [][NextMatrix]_vars

\* ---- grouping and summary as a function of the mapping and the labels
Pkg(c) == <<c>>

Letters(from, to) == [i \in 1..(to - from + 1) |-> Pkg(from + i - 1)]

\* Package lists of repositories, over twelve one-letter names: a long list,
\* two short ones, and a long one in the opposite order.
GroupLists ==
    {Letters(1, 11), <<Pkg(12)>>, <<Pkg(2), Pkg(1)>>, Reverse(Letters(2, 12))}

\* The keys are in the order opposite to their numbers: a repository's
\* identifier is not its row.
GroupInputs ==
    UNION {MappingsOver(Reverse(FirstIds(n)), GroupLists) : n \in 1..MaxGroupRepos}

InitGroup ==
    /\ pc = "main_group"
    /\ ScrapeIdle /\ ExtractIdle /\ StageIdle
    /\ repos \in GroupInputs
    /\ LET m == BuildMatrix(repos)
       IN  /\ repo_names = m.repo_names
           /\ all_packages = m.all_packages
           /\ X = m.X
    /\ RerunIdle
    /\ fits = 0
    /\ n_clusters \in 1..Len(repos)
    /\ clusters \in [1..Len(repos) -> 0..(n_clusters - 1)]
    /\ SummaryIdle
    /\ error = ""

NextGroup ==
    \/ MainGroup
    \/ MainSummarize

SpecGroup == InitGroup /\ [][NextGroup]_vars

(***************************************************************************)
(* Properties                                                              *)
(***************************************************************************)
\* Positions of yielded at which a repository appears for the first time.
FirstOccurrences(s) == {i \in 1..Len(s) : \A j \in 1..(i - 1) : s[j] # s[i]}

\* The p-th smallest element of a set of numbers.
NthOf(S, p) == CHOOSE i \in S : Cardinality({j \in S : j < i}) = p - 1

\* C9: scrape_github never raises out of the run; whatever ends the scan
\* (failed search, rate limit, another error, exhaustion, max_repos), what it
\* holds and returns is exactly the distinct repositories produced so far, in
\* order, cut at max_repos entries.
C9_ScrapeReturnsPartial ==
    /\ pc \in {"scrape_search", "scrape_loop", "scrape_returned"}
    /\ Len(raw_repos) <= max_repos
    /\ LET first == FirstOccurrences(yielded)
       IN  /\ Len(raw_repos) = Min(max_repos, Cardinality(first))
           /\ \A p \in 1..Len(raw_repos) : raw_repos[p] = yielded[NthOf(first, p)]

C9_Witness ==
    /\ pc = "scrape_returned"
    /\ scrape_exit = "other"
    /\ Len(raw_repos) = 2
    /\ Len(yielded) = 3
    /\ max_repos = 3

\* C2: whichever candidates fail, process_repo probes all four, and its result
\* is the duplicate-free union of the packages of those that succeeded (None
\* when that union is empty); in the mapping extract_dependencies returns, a
\* repository is a key iff its union is non-empty, and no list is empty.
C2_UnionOfSucceededFiles ==
    /\ \A r \in Submitted :
         /\ IsCompleted(tasks[r]) => tasks[r].probed = dependency_files
         /\ tasks[r].state = "done" =>
              IF UnionOfSucceeded(remote[r]) = {}
              THEN tasks[r].result = None
              ELSE /\ tasks[r].result # None
                   /\ tasks[r].result[1] = r
                   /\ Range(tasks[r].result[2]) = UnionOfSucceeded(remote[r])
                   /\ NoDup(tasks[r].result[2])
    /\ \A i \in 1..Len(repos_dependencies) : repos_dependencies[i][2] # <<>>
    /\ pc = "extract_returned" =>
         \A r \in DOMAIN remote :
            HasKey(repos_dependencies, r) <=> UnionOfSucceeded(remote[r]) # {}

C2_Witness ==
    /\ pc = "extract_returned"
    /\ \E r, q \in DOMAIN remote :
         /\ remote[r].fails = {"requirements.txt", "setup.cfg"}
         /\ HasKey(repos_dependencies, r)
         /\ Range(Get(repos_dependencies, r)) = {PkgAB, PkgA}
         /\ remote[q].fails = {"requirements.txt", "setup.py", "pyproject.toml"}
         /\ ~HasKey(repos_dependencies, q)

\* C3: an exception escaping one repository's task is isolated to that task:
\* extract_dependencies still returns, and the result of every other task is
\* in the mapping it returns.
C3_TaskErrorIsolated ==
    /\ pc # "extract_raised"
    /\ pc = "extract_returned" =>
         \A r \in Submitted :
            (tasks[r].state = "done" /\ tasks[r].result # None)
               => HasKey(repos_dependencies, r)

\* The entries the fetch results determine, whatever the schedule.
ExpectedEntries ==
    {<<r, UnionOfSucceeded(remote[r])>> :
       r \in {q \in DOMAIN remote : UnionOfSucceeded(remote[q]) # {}}}

\* C4: each identifier is written at most once, only with the result of its
\* own finished task, and the set of (identifier, package set) entries
\* extract_dependencies returns is fixed by the fetch results alone.
C4_CompletionOrderIrrelevant ==
    /\ NoDup(Keys(repos_dependencies))
    /\ \A r \in Submitted :
         /\ tasks[r].writes <= 1
         /\ HasKey(repos_dependencies, r) <=> tasks[r].writes = 1
         /\ HasKey(repos_dependencies, r) =>
              /\ tasks[r].state = "done"
              /\ tasks[r].result = <<r, Get(repos_dependencies, r)>>
    /\ pc = "extract_returned" => Entries(repos_dependencies) = ExpectedEntries

\* The task submitted last finished and was stored first.
C4_Witness ==
    /\ pc = "extract_returned"
    /\ Len(repos_dependencies) = 2
    /\ Keys(repos_dependencies) = <<2, 1>>

\* C1: vocabulary is the sorted list of exactly the distinct packages of the
\* mapping, and X[i][j] = 1 iff vocabulary[j] is in the list of repo_order[i],
\* else 0.
C1_MatrixMatchesMapping ==
    pc = "main_elbow" =>
       /\ repo_names = Keys(repos)
       /\ \A p \in PackageNames :
            p \in Range(all_packages) <=>
               \E i \in 1..Len(repos) : \E q \in 1..Len(repos[i][2]) : repos[i][2][q] = p
       /\ \A j, l \in 1..Len(all_packages) :
            j < l => LexLess(all_packages[j], all_packages[l])
       /\ Len(X) = Len(repo_names)
       /\ \A i \in 1..Len(X) :
            /\ Len(X[i]) = Len(all_packages)
            /\ \A j \in 1..Len(all_packages) :
                 X[i][j] = IF all_packages[j] \in Range(Get(repos, repo_names[i]))
                           THEN 1 ELSE 0

C1_Witness ==
    /\ pc = "main_elbow"
    /\ repo_names = <<2, 1>>
    /\ all_packages = <<PkgA, PkgAB, PkgB>>
    /\ X = <<<<1, 0, 1>>, <<0, 1, 0>>>>

\* C8: the matrix built from the same mapping in another iteration order has
\* the same vocabulary and the same rows.
C8_SameMatrixAnyOrder ==
    (pc = "main_elbow" /\ rerun # NotBuilt) =>
       /\ rerun.all_packages = all_packages
       /\ rerun.X = X

\* Rows of the matrix that carry the label.
RowsOf(label) == {i \in 1..Len(repo_names) : clusters[i] = label}

\* Number of member repositories of the cluster that list package p.
Frequency(label, p) ==
    Cardinality({i \in RowsOf(label) : p \in Range(Get(repos, repo_names[i]))})

FirstRow(label, p) ==
    CHOOSE i \in RowsOf(label) :
       /\ p \in Range(Get(repos, repo_names[i]))
       /\ \A j \in RowsOf(label) :
            p \in Range(Get(repos, repo_names[j])) => i <= j

PositionIn(list, p) == CHOOSE q \in 1..Len(list) : list[q] = p

\* p is met before q when the members' lists are read in repo_order.
MetBefore(label, p, q) ==
    LET i == FirstRow(label, p)
        j == FirstRow(label, q)
        list == Get(repos, repo_names[i])
    IN  \/ i < j
        \/ i = j /\ PositionIn(list, p) < PositionIn(list, q)

GroupPackageNames == Range(Letters(1, 12))

PackagesOfCluster(label) == {p \in GroupPackageNames : Frequency(label, p) > 0}

\* C6: for every cluster label the summary holds at most 10 (package,
\* frequency) pairs, frequency being the number of member repositories listing
\* the package, in descending frequency, equal frequencies in order of first
\* encounter (repo_order, then list order); no package left out is more
\* frequent than one listed.  (The order is stated for neighbours and the
\* bound for the last pair: both orders are transitive.)
C6_TopPackagesRanked ==
    pc = "main_plot" =>
       /\ \A label \in Range(clusters) : HasKey(cluster_top_packages, label)
       /\ \A t \in 1..Len(cluster_top_packages) :
            LET label == cluster_top_packages[t][1]
                top == cluster_top_packages[t][2]
                listed == {top[x][1] : x \in 1..Len(top)}
            IN  /\ Len(top) <= TopN
                /\ Len(top) = Min(TopN, Cardinality(PackagesOfCluster(label)))
                /\ \A x \in 1..Len(top) :
                     /\ top[x][2] = Frequency(label, top[x][1])
                     /\ top[x][2] > 0
                /\ \A x \in 1..(Len(top) - 1) :
                     \/ top[x][2] > top[x + 1][2]
                     \/ /\ top[x][2] = top[x + 1][2]
                        /\ MetBefore(label, top[x][1], top[x + 1][1])
                /\ \A p \in PackagesOfCluster(label) \ listed :
                     Frequency(label, p) <= top[Len(top)][2]

\* A cluster of more than 10 packages: the list is cut, holds a tie and a
\* drop in frequency, and starts with a package that was not met first.
C6_Witness ==
    /\ pc = "main_plot"
    /\ \E t \in 1..Len(cluster_top_packages) :
         LET label == cluster_top_packages[t][1]
             top == cluster_top_packages[t][2]
         IN  /\ Len(top) = TopN
             /\ Cardinality(PackagesOfCluster(label)) > TopN
             /\ top[1][2] = top[2][2]
             /\ top[1][2] > top[TopN][2]
             /\ \E p \in PackagesOfCluster(label) : MetBefore(label, p, top[1][1])

\* Number of places a repository takes in the member lists of the grouping.
Memberships(name) ==
    Cardinality({e \in (1..Len(cluster_repo_map)) \X (1..Len(repo_names)) :
                   /\ e[2] <= Len(cluster_repo_map[e[1]][2])
                   /\ cluster_repo_map[e[1]][2][e[2]] = name})

\* C7: every repository is a member of exactly one cluster, the one whose
\* label the partitioner gave its row; every label is in [0, k); no cluster
\* without members is in the grouping or in the summary.
C7_GroupingFollowsLabels ==
    pc \in {"main_summarize", "main_plot"} =>
       /\ NoDup(Keys(cluster_repo_map))
       /\ \A i \in 1..Len(repo_names) :
            /\ Memberships(repo_names[i]) = 1
            /\ HasKey(cluster_repo_map, clusters[i])
            /\ repo_names[i] \in Range(Get(cluster_repo_map, clusters[i]))
       /\ \A e \in 1..Len(cluster_repo_map) :
            /\ cluster_repo_map[e][1] \in 0..(n_clusters - 1)
            /\ cluster_repo_map[e][2] # <<>>
            /\ Range(cluster_repo_map[e][2]) \subseteq Range(repo_names)
       /\ pc = "main_plot" => Keys(cluster_top_packages) = Keys(cluster_repo_map)

\* Three clusters asked for, one of them without members.
C7_Witness ==
    /\ pc = "main_plot"
    /\ n_clusters = 3
    /\ repo_names = <<3, 2, 1>>
    /\ clusters = <<2, 0, 2>>
    /\ Keys(cluster_repo_map) = <<2, 0>>
    /\ Get(cluster_repo_map, 2) = <<3, 1>>
    /\ Keys(cluster_top_packages) = <<2, 0>>

\* Positions of main.py behind the construction of the matrix.
AfterBuild ==
    {"main_elbow", "main_kmeans", "main_group", "main_summarize", "main_plot"}

\* C5: with more clusters asked for than there are repositories, the run is
\* rejected with a configuration error before any fit is started.
C5_RejectedBeforeAnyFit ==
    (pc \in AfterBuild \cup {"main_error"} /\ optimal_k > Len(repo_names)) =>
       fits = 0

\* C10: behind the save, the mapping the matrix is built from and the mapping
\* in data/repos.pkl are the mapping extract_dependencies returned in this run.
C10_MappingIsThisRunsAggregate ==
    (pc \in {"main_build"} \cup AfterBuild) =>
       /\ repos = returned
       /\ blob.repos = Stored(returned)

====
